---- MODULE Spec2Model ----
(***************************************************************************)
(* A model of src/app.py: the PDF catalog service.  The state is the PDF   *)
(* table (db), the upload folder on disk (dirs, files) and, for the        *)
(* concurrent specification, the request each worker thread is serving.    *)
(*                                                                         *)
(* Text is modelled as a sequence of chunks: a chunk is either one special *)
(* character (" ", "_", ".", "/") or a run of ASCII letters ("A", "pdf").  *)
(***************************************************************************)
EXTENDS Integers, Sequences, FiniteSets, TLC

VARIABLES db, dirs, files, clock, faults, last, req, hist

vars == <<db, dirs, files, clock, faults, last, req, hist>>

(* ---------------------------------------------------------------- bounds *)
\* uploads accepted in one run, I/O failures injected in one run, ids of a batch,
\* downloads counted per document, worker threads and requests served in the
\* concurrent specification
MaxUploads == 2
MaxFaults == 1
MaxBatch == 2
MaxDownloads == 1
NumWorkers == 2
MaxRequests == 3

(* ------------------------------------------------------------------ text *)
Empty == <<>>

Max(S) == CHOOSE x \in S : \A y \in S : y <= x

\* str.replace(old, new) for one-chunk old and new
Replace(s, old, new) == [i \in 1..Len(s) |-> IF s[i] = old THEN new ELSE s[i]]

\* str.lower() on the chunks used here
LowerChunk(c) ==
    CASE c = "PDF" -> "pdf"
      [] c = "A" -> "a"
      [] c = "B" -> "b"
      [] OTHER -> c

Lower(s) == [i \in 1..Len(s) |-> LowerChunk(s[i])]

\* the index of the last "." of s, 0 when there is none
RECURSIVE LastDot(_, _)
LastDot(s, i) ==
    IF i = 0 THEN 0
    ELSE IF s[i] = "." THEN i
    ELSE LastDot(s, i - 1)

\* filename.rsplit('.', 1)[1]
RSplitExt(s) == SubSeq(s, LastDot(s, Len(s)) + 1, Len(s))

ALLOWED_EXTENSIONS == {<<"pdf">>, <<"jpg">>, <<"jpeg">>, <<"png">>}

\* a slip: the extension is taken after the first "." (split, not rsplit)
allowed_file_first_dot(filename) ==
    /\ \E i \in 1..Len(filename) : filename[i] = "."
    /\ Len(filename) >= 3
    /\ filename[2] = "."
    /\ Lower(<<filename[3]>>) \in ALLOWED_EXTENSIONS

allowed_file(filename) ==
    /\ \E i \in 1..Len(filename) : filename[i] = "."
    /\ Lower(RSplitExt(filename)) \in ALLOWED_EXTENSIONS

\* "_".join(s.split()): leading and trailing blanks go, inner runs of blanks
\* become one "_"
RECURSIVE JoinSplit(_, _, _)
JoinSplit(s, i, pendingGap) ==
    IF i > Len(s) THEN <<>>
    ELSE IF s[i] = " " THEN JoinSplit(s, i + 1, TRUE)
    ELSE (IF pendingGap THEN <<"_">> ELSE <<>>) \o <<s[i]>> \o JoinSplit(s, i + 1, FALSE)

RECURSIVE SkipBlank(_)
SkipBlank(s) == IF s # <<>> /\ Head(s) = " " THEN SkipBlank(Tail(s)) ELSE s

RECURSIVE LStrip(_, _)
LStrip(s, chars) == IF s # <<>> /\ Head(s) \in chars THEN LStrip(Tail(s), chars) ELSE s

RECURSIVE RStrip(_, _)
RStrip(s, chars) ==
    IF s # <<>> /\ s[Len(s)] \in chars THEN RStrip(SubSeq(s, 1, Len(s) - 1), chars) ELSE s

IsSafeChunk(c) == c \notin {" ", "/", "#"}

\* werkzeug.utils.secure_filename: path separators become blanks, blanks are
\* split away and joined by "_", characters outside [A-Za-z0-9_.-] are dropped,
\* and "." and "_" are stripped from both ends
secure_filename(s) ==
    LET noSep == Replace(s, "/", " ")
        joined == JoinSplit(SkipBlank(noSep), 1, FALSE)
        ascii == SelectSeq(joined, IsSafeChunk)
    IN  RStrip(LStrip(ascii, {".", "_"}), {".", "_"})

(* ------------------------------------------------------------ the inputs *)
\* "A B" and "A_B" derive the same folder, "C" another one
Titles == {<<"A", " ", "B">>, <<"C">>}
ConcTitles == {<<"A", " ", "B">>, <<"A", "_", "B">>, <<"C">>}
TitleInputs == Titles \cup {Empty}
AuthorInputs == {"au", ""}
GoodFiles == {<<"f", ".", "PDF">>}
BadFiles == {<<"f", ".", "txt">>, <<"f">>, <<"f", ".", "pdf", ".", "exe">>}
\* 'pdf_file' not in request.files
NoUpload == <<"#">>
FileInputs == GoodFiles \cup BadFiles \cup {Empty, NoUpload}
ThumbInputs == {NoUpload, <<"t", ".", "png">>, <<"t", ".", "txt">>}

\* the upload requests tried: every accepted combination, and the rejected ones
\* that differ in the check that rejects them
UploadInputs ==
    [title : Titles, author : {"au"}, pdf_file : GoodFiles, thumb : ThumbInputs] \cup
    [title : {<<"C">>}, author : {"au"}, pdf_file : BadFiles \cup {Empty, NoUpload}, thumb : {NoUpload}] \cup
    [title : {Empty}, author : {"au"}, pdf_file : GoodFiles \cup {<<"f", ".", "txt">>}, thumb : {NoUpload}] \cup
    [title : {<<"C">>}, author : {""}, pdf_file : GoodFiles \cup {<<"f">>}, thumb : {NoUpload}]
\* folder_name = secure_filename(title.replace(" ", "_")), tabulated over the
\* titles of the model
FolderNames == [t \in Titles \cup ConcTitles |-> secure_filename(Replace(t, " ", "_"))]
FolderName(title) == FolderNames[title]

\* the ids requests name: each of them is missing before its upload and after
\* its deletion
Ids == 1..MaxUploads
Workers == 1..NumWorkers

(* ------------------------------------------------------------ the state *)
NoThumb == <<>>

\* class PDF: one row of the table
PDF(id, title, author, thumbnail, category, file_name, description, upload_date) ==
    [id |-> id, title |-> title, author |-> author, thumbnail |-> thumbnail,
     category |-> category, file_name |-> file_name, description |-> description,
     upload_date |-> upload_date, download_count |-> 0]

\* None, where a row is expected
NoRow == [id |-> 0, title |-> Empty, author |-> "", thumbnail |-> NoThumb,
          category |-> "", file_name |-> Empty, description |-> "",
          upload_date |-> 0, download_count |-> 0]

\* PDF.to_dict
to_dict(row) == row

\* the rowid SQLite gives an INTEGER PRIMARY KEY row inserted without an id
NewId(table) == IF DOMAIN table = {} THEN 1 ELSE Max(DOMAIN table) + 1

Insert(table, row) == [i \in DOMAIN table \cup {row.id} |-> IF i = row.id THEN row ELSE table[i]]

DeleteRows(table, gone) == [i \in DOMAIN table \ gone |-> table[i]]

\* os.path.exists(folder_path), not os.listdir(folder_path), os.makedirs(folder_path):
\* dirs holds the folders under UPLOAD_FOLDER, files the pairs <<folder, name>>
DirExists(ds, d) == d \in ds
ListDirEmpty(fs, d) == ~ \E p \in fs : p[1] = d
MakeDirs(ds, d) == ds \cup {d}

\* a worker thread: where it is in the request it serves, the request, the
\* object its session holds, and the response it gave last
Idle == [pc |-> "idle", op |-> "none", status |-> 0, title |-> Empty, pdf_file |-> Empty,
         thumb |-> Empty, pdf |-> NoRow]

\* the last request served and its response: what the caller saw. arg is the
\* file name of an upload, the keys of an update's payload or the ids of a batch;
\* body is the document an upload returned (of a rejected one, the title and
\* author it gave); fault is the call that raised.
NoOp == [op |-> "none", status |-> 0, msg |-> "", id |-> 0, arg |-> <<>>, body |-> NoRow,
         count |-> 0, fault |-> "none"]

Response(op, status, msg) == [NoOp EXCEPT !.op = op, !.status = status, !.msg = msg]

Init ==
    /\ db = <<>>
    /\ dirs = {}
    /\ files = {}
    /\ clock = 0
    /\ faults = 0
    /\ last = NoOp
    /\ req = [w \in Workers |-> Idle]
    /\ hist = [started |-> 0, completed |-> <<>>, written |-> <<>>]

(* ---------------------------------------------------------------- upload *)
Rejected(table, ds, fs, msg) ==
    [status |-> 400, msg |-> msg, db |-> table, dirs |-> ds, files |-> fs, body |-> NoRow]

\* the checks upload_pdf makes before it touches the disk, in their order;
\* "" when the request passes them all
UploadError(title, author, category, pdf_file) ==
    IF pdf_file = NoUpload THEN "No PDF file provided"
    ELSE IF pdf_file = Empty THEN "No PDF file selected"
    ELSE IF title = Empty \/ author = "" \/ category = "" THEN "Missing required fields"
    ELSE IF ~ allowed_file(pdf_file) THEN "Invalid file format"
    ELSE ""

\* the thumbnail path upload_pdf stores: relative to the upload folder, or None
ThumbnailPath(folder_name, thumb) ==
    IF thumb # NoUpload /\ thumb # Empty /\ allowed_file(thumb)
    THEN <<folder_name, secure_filename(thumb)>>
    ELSE NoThumb

\* pdf_file.save and thumbnail_file.save
SaveFiles(fs, folder_name, pdf_file, thumb) ==
    LET fs1 == fs \cup {<<folder_name, secure_filename(pdf_file)>>}
        thumbnail_path == ThumbnailPath(folder_name, thumb)
    IN  IF thumbnail_path # NoThumb THEN fs1 \cup {thumbnail_path} ELSE fs1

\* new_pdf = PDF(...); db.session.add; db.session.commit
NewPdf(table, now, title, author, category, description, pdf_file, thumb) ==
    PDF(NewId(table), title, author, ThumbnailPath(FolderName(title), thumb), category,
        secure_filename(pdf_file), description, now)

\* upload_pdf run without interruption
UploadResult(table, ds, fs, now, title, author, category, description, pdf_file, thumb) ==
    LET err == UploadError(title, author, category, pdf_file)
        folder_name == FolderName(title)
        new_pdf == NewPdf(table, now, title, author, category, description, pdf_file, thumb)
    IN  IF err # "" THEN Rejected(table, ds, fs, err)
        ELSE [status |-> 201, msg |-> "PDF uploaded successfully!",
              db |-> Insert(table, new_pdf),
              dirs |-> IF ~ DirExists(ds, folder_name) THEN MakeDirs(ds, folder_name) ELSE ds,
              files |-> SaveFiles(fs, folder_name, pdf_file, thumb),
              body |-> to_dict(new_pdf)]

upload_pdf ==
    \E u \in UploadInputs :
        LET r == UploadResult(db, dirs, files, clock + 1, u.title, u.author, "cat", "",
                              u.pdf_file, u.thumb) IN
        /\ r.status = 201 => clock < MaxUploads
        /\ db' = r.db
        /\ dirs' = r.dirs
        /\ files' = r.files
        /\ clock' = IF r.status = 201 THEN clock + 1 ELSE clock
        /\ last' = [Response("upload", r.status, r.msg) EXCEPT
                        !.id = r.body.id, !.arg = u.pdf_file,
                        !.body = IF r.status = 201 THEN r.body
                                 ELSE [NoRow EXCEPT !.title = u.title, !.author = u.author]]
        /\ hist' = IF r.status = 201
                   THEN [hist EXCEPT !.written = [i \in DOMAIN hist.written \cup {r.body.id} |->
                            IF i = r.body.id THEN <<FolderName(u.title), r.body.file_name>>
                            ELSE hist.written[i]]]
                   ELSE hist
        /\ UNCHANGED <<faults, req>>

(* ----------------------------------------------------------------- reads *)
\* PDF.query.get(pdf_id)
QueryGet(table, pdf_id) == IF pdf_id \in DOMAIN table THEN table[pdf_id] ELSE NoRow

\* a slip: first() without the filter
FirstOfAll(table, title) ==
    IF DOMAIN table = {} THEN NoRow ELSE table[CHOOSE i \in DOMAIN table : \A j \in DOMAIN table : i <= j]

\* PDF.query.filter_by(title=title).first(): SQLite scans the table in rowid order
FirstByTitle(table, title) ==
    LET hits == {i \in DOMAIN table : table[i].title = title}
    IN  IF hits = {} THEN NoRow ELSE table[CHOOSE i \in hits : \A j \in hits : i <= j]

GetByIdResult(table, pdf_id) ==
    LET pdf == QueryGet(table, pdf_id)
    IN  IF pdf = NoRow
        THEN [status |-> 404, msg |-> "PDF not found", body |-> NoRow]
        ELSE [status |-> 200, msg |-> "", body |-> to_dict(pdf)]

GetByTitleResult(table, title) ==
    LET pdf == FirstByTitle(table, title)
    IN  IF pdf = NoRow
        THEN [status |-> 404, msg |-> "PDF not found", body |-> NoRow]
        ELSE [status |-> 200, msg |-> "", body |-> to_dict(pdf)]

get_pdf_by_id ==
    \E pdf_id \in Ids :
        LET r == GetByIdResult(db, pdf_id) IN
        /\ last' = Response("get_by_id", r.status, r.msg)
        /\ UNCHANGED <<db, dirs, files, clock, faults, req, hist>>

get_pdf_by_title ==
    \E title \in Titles :
        LET r == GetByTitleResult(db, title) IN
        /\ last' = Response("get_by_title", r.status, r.msg)
        /\ UNCHANGED <<db, dirs, files, clock, faults, req, hist>>

(* ---------------------------------------------------------------- update *)
UpdatableFields == {"title", "author", "category", "description"}

\* the JSON bodies tried: the empty object, a new title, the three other fields
\* at once, and an object holding only a key the handler does not read
MetaPayload == [k \in {"author", "category", "description"} |-> "new"]

Payloads ==
    {<<>>} \cup
    {[k \in {"title"} |-> t] : t \in Titles} \cup
    {MetaPayload, [k \in {"download_count"} |-> 7]}

\* the assignments of update_pdf
ApplyUpdate(pdf, data) ==
    LET p1 == IF "title" \in DOMAIN data THEN [pdf EXCEPT !.title = data["title"]] ELSE pdf
        p2 == IF "author" \in DOMAIN data THEN [p1 EXCEPT !.author = data["author"]] ELSE p1
        p3 == IF "category" \in DOMAIN data THEN [p2 EXCEPT !.category = data["category"]] ELSE p2
        p4 == IF "description" \in DOMAIN data THEN [p3 EXCEPT !.description = data["description"]] ELSE p3
    IN  p4

\* `not data`
NoData(data) == DOMAIN data = {}

UpdateResult(table, pdf_id, data) ==
    LET pdf == QueryGet(table, pdf_id)
    IN  IF pdf = NoRow
        THEN [status |-> 404, msg |-> "PDF not found", db |-> table, body |-> NoRow]
        ELSE IF NoData(data)
        THEN [status |-> 400, msg |-> "No data provided", db |-> table, body |-> NoRow]
        ELSE LET new == ApplyUpdate(pdf, data)
             IN  [status |-> 200, msg |-> "PDF updated successfully",
                  db |-> [table EXCEPT ![pdf_id] = new], body |-> to_dict(new)]

UpdateWith(bodies) ==
    \E pdf_id \in Ids, data \in bodies :
        LET r == UpdateResult(db, pdf_id, data) IN
        /\ db' = r.db
        /\ last' = [Response("update", r.status, r.msg) EXCEPT !.id = pdf_id, !.arg = DOMAIN data]
        /\ UNCHANGED <<dirs, files, clock, faults, req, hist>>

update_pdf == UpdateWith(Payloads)

\* update_pdf called to rename documents only
rename_pdf == UpdateWith(Payloads \ {MetaPayload})

(* ---------------------------------------------------------------- delete *)
Faults == {"none", "file", "thumb", "rmdir", "commit"}

\* the file-system part of delete_pdf (and, copied, of batch_delete): the stored
\* file, then the thumbnail, then the folder when it is empty. `fault` names the
\* call that raises OSError; a fault naming a call that is not made does not occur.
RemoveFrom(ds, fs, folder_name, pdf_path, thumbnail, fault) ==
    LET hasFile == pdf_path \in fs
        fs1 == fs \ {pdf_path}
        hasThumb == thumbnail # NoThumb /\ thumbnail \in fs1
        fs2 == fs1 \ {thumbnail}
        emptyDir == DirExists(ds, folder_name) /\ ListDirEmpty(fs2, folder_name)
    IN  IF hasFile /\ fault = "file" THEN [failed |-> TRUE, dirs |-> ds, files |-> fs]
        ELSE IF hasThumb /\ fault = "thumb" THEN [failed |-> TRUE, dirs |-> ds, files |-> fs1]
        ELSE IF emptyDir /\ fault = "rmdir" THEN [failed |-> TRUE, dirs |-> ds, files |-> fs2]
        ELSE [failed |-> FALSE, dirs |-> IF emptyDir THEN ds \ {folder_name} ELSE ds,
              files |-> fs2]

RemoveFiles(pdf, ds, fs, fault) ==
    RemoveFrom(ds, fs, FolderName(pdf.title), <<FolderName(pdf.title), pdf.file_name>>,
               pdf.thumbnail, fault)

\* a slip: the row is deleted and committed before the files are removed
DeleteResultRowFirst(table, ds, fs, pdf_id, fault) ==
    LET pdf == QueryGet(table, pdf_id)
        rm == RemoveFiles(pdf, ds, fs, fault)
    IN  IF pdf = NoRow
        THEN [status |-> 404, msg |-> "PDF not found", db |-> table, dirs |-> ds, files |-> fs]
        ELSE IF fault = "commit"
        THEN [status |-> 500, msg |-> "Failed to delete PDF", db |-> table, dirs |-> ds, files |-> fs]
        ELSE [status |-> IF rm.failed THEN 500 ELSE 200,
              msg |-> IF rm.failed THEN "Failed to delete PDF" ELSE "deleted successfully",
              db |-> DeleteRows(table, {pdf_id}), dirs |-> rm.dirs, files |-> rm.files]

DeleteResult(table, ds, fs, pdf_id, fault) ==
    LET pdf == QueryGet(table, pdf_id)
        rm == RemoveFiles(pdf, ds, fs, fault)
    IN  IF pdf = NoRow
        THEN [status |-> 404, msg |-> "PDF not found", db |-> table, dirs |-> ds, files |-> fs]
        ELSE IF rm.failed \/ fault = "commit"
        THEN [status |-> 500, msg |-> "Failed to delete PDF", db |-> table,
              dirs |-> rm.dirs, files |-> rm.files]
        ELSE [status |-> 200, msg |-> "deleted successfully",
              db |-> DeleteRows(table, {pdf_id}),
              dirs |-> rm.dirs, files |-> rm.files]

delete_pdf ==
    \E pdf_id \in Ids, fault \in Faults :
        LET r == DeleteResult(db, dirs, files, pdf_id, fault) IN
        /\ db' = r.db
        /\ dirs' = r.dirs
        /\ files' = r.files
        /\ fault # "none" => (r.status = 500 /\ faults < MaxFaults)
        /\ faults' = IF r.status = 500 THEN faults + 1 ELSE faults
        /\ last' = [Response("delete", r.status, r.msg) EXCEPT !.id = pdf_id, !.fault = fault]
        /\ UNCHANGED <<clock, req, hist>>

(* ---------------------------------------------------------- batch delete *)
\* the request bodies tried: a list of at most MaxBatch ids, or no 'ids' key
IdLists == UNION {[1..n -> Ids] : n \in 0..MaxBatch}
NoIds == <<0>>

\* where a batch fails: the call `step` made for the at-th id raises, or the
\* final commit does (at = 0)
BatchFaults(ids) ==
    {[at |-> 0, step |-> "none"], [at |-> 0, step |-> "commit"]} \cup
    [at : 1..Len(ids), step : {"file", "thumb", "rmdir"}]

\* The session of one batch_delete request. identity: the ids whose object is in
\* the identity map; marked: those passed to db.session.delete and not yet
\* flushed; flushed: those whose DELETE has been emitted in the open transaction.
NewSession(ds, fs) ==
    [dirs |-> ds, files |-> fs, identity |-> {}, marked |-> {}, flushed |-> {},
     count |-> 0, failed |-> FALSE]

\* PDF.query.get(pdf_id): an object in the identity map is returned as it is, and
\* no SQL is emitted; otherwise the session autoflushes (the marked objects are
\* deleted and leave the identity map) and the row is selected
SessionGet(table, st, pdf_id) ==
    IF pdf_id \in st.identity
    THEN [found |-> TRUE, st |-> st]
    ELSE LET flushed == st.flushed \cup st.marked
             found == pdf_id \in DOMAIN table \ flushed
         IN  [found |-> found,
              st |-> [st EXCEPT !.flushed = flushed, !.marked = {},
                                !.identity = (st.identity \ st.marked) \cup
                                             (IF found THEN {pdf_id} ELSE {})]]

\* one turn of the loop of batch_delete, for a row that was found: rm is what
\* removing its files did
MarkDeleted(st, pdf_id, rm) ==
    IF rm.failed THEN [st EXCEPT !.dirs = rm.dirs, !.files = rm.files, !.failed = TRUE]
    ELSE [st EXCEPT !.dirs = rm.dirs, !.files = rm.files,
                    !.marked = st.marked \cup {pdf_id}, !.count = st.count + 1]

FoundStep(table, g, pdf_id, fault) ==
    IF ~ g.found THEN g.st
    ELSE MarkDeleted(g.st, pdf_id, RemoveFiles(table[pdf_id], g.st.dirs, g.st.files, fault))

\* one turn of the loop of batch_delete
BatchStep(table, st, pdf_id, fault) == FoundStep(table, SessionGet(table, st, pdf_id), pdf_id, fault)

RECURSIVE BatchLoop(_, _, _, _, _)
BatchLoop(table, st, ids, i, fault) ==
    IF i > Len(ids) \/ st.failed THEN st
    ELSE BatchLoop(table, BatchStep(table, st, ids[i], IF fault.at = i THEN fault.step ELSE "none"),
                   ids, i + 1, fault)

\* a slip: db.session.commit() inside the loop, once per id
BatchDeleteResultCommitEach(table, ds, fs, ids, fault) ==
    LET st == BatchLoop(table, NewSession(ds, fs), ids, 1, fault)
    IN  IF ids = NoIds
        THEN [status |-> 400, msg |-> "No IDs provided", db |-> table, dirs |-> ds,
              files |-> fs, count |-> 0]
        ELSE IF st.failed \/ fault.step = "commit"
        THEN [status |-> 500, msg |-> "Batch delete failed",
              db |-> DeleteRows(table, st.flushed \cup st.marked), dirs |-> st.dirs,
              files |-> st.files, count |-> 0]
        ELSE [status |-> 200, msg |-> "Successfully deleted",
              db |-> DeleteRows(table, st.flushed \cup st.marked), dirs |-> st.dirs,
              files |-> st.files, count |-> st.count]

BatchDeleteResult(table, ds, fs, ids, fault) ==
    LET st == BatchLoop(table, NewSession(ds, fs), ids, 1, fault)
    IN  IF ids = NoIds
        THEN [status |-> 400, msg |-> "No IDs provided", db |-> table, dirs |-> ds,
              files |-> fs, count |-> 0]
        ELSE IF st.failed \/ fault.step = "commit"
        THEN [status |-> 500, msg |-> "Batch delete failed", db |-> table, dirs |-> st.dirs,
              files |-> st.files, count |-> 0]
        ELSE [status |-> 200, msg |-> "Successfully deleted",
              db |-> DeleteRows(table, st.flushed \cup st.marked), dirs |-> st.dirs,
              files |-> st.files, count |-> st.count]

batch_delete ==
    \E ids \in IdLists \cup {NoIds} : \E fault \in BatchFaults(ids) :
        LET r == BatchDeleteResult(db, dirs, files, ids, fault) IN
        /\ db' = r.db
        /\ dirs' = r.dirs
        /\ files' = r.files
        /\ fault.step # "none" => (r.status = 500 /\ faults < MaxFaults)
        /\ faults' = IF r.status = 500 THEN faults + 1 ELSE faults
        /\ last' = [Response("batch_delete", r.status, r.msg) EXCEPT
                        !.count = r.count, !.fault = fault.step, !.arg = ids]
        /\ UNCHANGED <<clock, req, hist>>

(* -------------------------------------------------------------- download *)
\* download_pdf run without interruption: the count is committed before the file
\* is looked up; send_from_directory raises NotFound for a missing file, and the
\* handler's `except Exception` answers it
DownloadResult(table, fs, pdf_id) ==
    LET pdf == QueryGet(table, pdf_id)
        counted == [table EXCEPT ![pdf_id].download_count = pdf.download_count + 1]
        path == <<FolderName(pdf.title), pdf.file_name>>
    IN  IF pdf = NoRow
        THEN [status |-> 404, msg |-> "PDF not found", db |-> table, sent |-> <<>>]
        ELSE IF path \in fs
        THEN [status |-> 200, msg |-> "", db |-> counted, sent |-> path]
        ELSE [status |-> 500, msg |-> "Failed to download PDF", db |-> counted, sent |-> <<>>]

download_pdf ==
    \E pdf_id \in Ids :
        LET r == DownloadResult(db, files, pdf_id) IN
        /\ QueryGet(db, pdf_id).download_count < MaxDownloads
        /\ db' = r.db
        /\ last' = [Response("download", r.status, r.msg) EXCEPT !.id = pdf_id]
        /\ UNCHANGED <<dirs, files, clock, faults, req, hist>>

(* ------------------------------------------------- concurrent requests *)
\* Requests served by worker threads, each with a session of its own. A step is
\* one access to the disk or to the database; the steps of different workers
\* interleave.
ConcUploads == [title : ConcTitles, author : {"au"}, pdf_file : GoodFiles, thumb : {NoUpload}]
ConcIds == 1..MaxRequests

Free(w) == req[w].pc \in {"idle", "done"} /\ hist.started < MaxRequests

Done(w, status) == [req[w] EXCEPT !.pc = "done", !.status = status]

Completed(id) == IF id \in DOMAIN hist.completed THEN hist.completed[id] ELSE 0

\* upload_pdf up to folder_path: the checks of the request
UploadCheck(w) ==
    \E u \in ConcUploads :
        /\ Free(w)
        /\ req' = [req EXCEPT ![w] =
                    IF UploadError(u.title, u.author, "cat", u.pdf_file) # ""
                    THEN [Idle EXCEPT !.pc = "done", !.op = "upload", !.status = 400]
                    ELSE [Idle EXCEPT !.pc = "test_dir", !.op = "upload", !.title = u.title,
                                      !.pdf_file = u.pdf_file, !.thumb = u.thumb]]
        /\ hist' = [hist EXCEPT !.started = hist.started + 1]
        /\ UNCHANGED <<db, dirs, files, clock, faults, last>>

\* if not os.path.exists(folder_path)
UploadTestDir(w) ==
    /\ req[w].pc = "test_dir"
    /\ req' = [req EXCEPT ![w].pc =
                IF DirExists(dirs, FolderName(req[w].title)) THEN "save" ELSE "makedirs"]
    /\ UNCHANGED <<db, dirs, files, clock, faults, last, hist>>

\* os.makedirs(folder_path): FileExistsError when the folder is there by now; the
\* handler's except answers 500
UploadMakeDirs(w) ==
    /\ req[w].pc = "makedirs"
    /\ IF DirExists(dirs, FolderName(req[w].title))
       THEN /\ req' = [req EXCEPT ![w] = Done(w, 500)]
            /\ dirs' = dirs
       ELSE /\ req' = [req EXCEPT ![w].pc = "save"]
            /\ dirs' = MakeDirs(dirs, FolderName(req[w].title))
    /\ UNCHANGED <<db, files, clock, faults, last, hist>>

\* pdf_file.save(pdf_path), thumbnail_file.save(thumbnail_path)
UploadSave(w) ==
    /\ req[w].pc = "save"
    /\ files' = SaveFiles(files, FolderName(req[w].title), req[w].pdf_file, req[w].thumb)
    /\ req' = [req EXCEPT ![w].pc = "insert"]
    /\ UNCHANGED <<db, dirs, clock, faults, last, hist>>

\* db.session.add(new_pdf); db.session.commit()
UploadCommit(w) ==
    /\ req[w].pc = "insert"
    /\ db' = Insert(db, NewPdf(db, clock + 1, req[w].title, "au", "cat", "", req[w].pdf_file,
                               req[w].thumb))
    /\ clock' = clock + 1
    /\ req' = [req EXCEPT ![w] = [Done(w, 201) EXCEPT !.pdf = db'[NewId(db)]]]
    /\ UNCHANGED <<dirs, files, faults, last, hist>>

\* pdf = PDF.query.get(pdf_id): the row is read into the worker's session
DownloadGet(w) ==
    \E pdf_id \in ConcIds :
        /\ Free(w)
        /\ req' = [req EXCEPT ![w] =
                    IF QueryGet(db, pdf_id) = NoRow
                    THEN [Idle EXCEPT !.pc = "done", !.op = "download", !.status = 404]
                    ELSE [Idle EXCEPT !.pc = "increment", !.op = "download",
                                      !.pdf = QueryGet(db, pdf_id)]]
        /\ hist' = [hist EXCEPT !.started = hist.started + 1]
        /\ UNCHANGED <<db, dirs, files, clock, faults, last>>

\* pdf.download_count += 1, on the session's object
DownloadIncrement(w) ==
    /\ req[w].pc = "increment"
    /\ req' = [req EXCEPT ![w].pc = "commit",
                          ![w].pdf.download_count = req[w].pdf.download_count + 1]
    /\ UNCHANGED <<db, dirs, files, clock, faults, last, hist>>

\* db.session.commit() writes the session's value of download_count to the row;
\* then the file is sent, or NotFound is caught and answered 500
DownloadCommit(w) ==
    /\ req[w].pc = "commit"
    /\ db' = [db EXCEPT ![req[w].pdf.id].download_count = req[w].pdf.download_count]
    /\ req' = [req EXCEPT ![w] =
                Done(w, IF <<FolderName(req[w].pdf.title), req[w].pdf.file_name>> \in files
                        THEN 200 ELSE 500)]
    /\ hist' = [hist EXCEPT !.completed =
                    [i \in DOMAIN hist.completed \cup {req[w].pdf.id} |->
                        IF i = req[w].pdf.id THEN Completed(i) + 1 ELSE hist.completed[i]]]
    /\ UNCHANGED <<dirs, files, clock, faults, last>>

(* -------------------------------------------------------- specifications *)
\* the catalog served one request at a time
Next == upload_pdf \/ get_pdf_by_id \/ get_pdf_by_title \/ rename_pdf \/ delete_pdf

Spec == Init /\ [][Next]_vars

NextBatch == upload_pdf \/ batch_delete

SpecBatch == Init /\ [][NextBatch]_vars

NextDownload == upload_pdf \/ rename_pdf \/ download_pdf

SpecDownload == Init /\ [][NextDownload]_vars

NextUpdate == upload_pdf \/ update_pdf

SpecUpdate == Init /\ [][NextUpdate]_vars

\* uploads and removals only: no update ever changes a title
NextFiles == upload_pdf \/ delete_pdf \/ batch_delete

SpecFiles == Init /\ [][NextFiles]_vars

\* the catalog served by NumWorkers threads
NextConc ==
    \E w \in Workers :
        \/ UploadCheck(w)
        \/ UploadTestDir(w)
        \/ UploadMakeDirs(w)
        \/ UploadSave(w)
        \/ UploadCommit(w)
        \/ DownloadGet(w)
        \/ DownloadIncrement(w)
        \/ DownloadCommit(w)

SpecConc == Init /\ [][NextConc]_vars

(* ---------------------------------------------------------------- claims *)
Range(f) == {f[i] : i \in DOMAIN f}

StoredPath(pdf) == <<FolderName(pdf.title), pdf.file_name>>

NoDownloadInFlight == \A w \in Workers : req[w].pc \notin {"increment", "commit"}

\* C1: N downloads of a document, their steps interleaved, raise its
\* download_count by exactly N: once no download is in flight, the stored count
\* of every document is the number of downloads completed for it.
C1_NoLostIncrement ==
    NoDownloadInFlight => \A id \in DOMAIN db : db[id].download_count = Completed(id)

\* C2: after a successful Delete(id), on a document that was uploaded and then
\* updated any number of times, GetById(id) is NotFound and the file written for
\* it at upload time is no longer on disk.
C2_DeleteRemovesRowAndFile ==
    (last.op = "delete" /\ last.status = 200) =>
        /\ GetByIdResult(db, last.id).status = 404
        /\ hist.written[last.id] \notin files

\* the claim's reading of "extension in {pdf, jpg, jpeg, png}", letter case aside
HasAllowedExtension(f) ==
    /\ Len(f) >= 2
    /\ f[Len(f) - 1] = "."
    /\ LowerChunk(f[Len(f)]) \in {"pdf", "jpg", "jpeg", "png"}

\* the error kinds of the responses
InvalidFile(msg) == msg \in {"Invalid file format", "No PDF file selected"}
MissingField(msg) == msg = "Missing required fields"

Untouched(r) == r.db = db /\ r.dirs = dirs /\ r.files = files

CategoryInputs == {"cat", ""}

BadUploadJustServed ==
    last.op = "upload" /\ last.arg # NoUpload /\ ~ HasAllowedExtension(last.arg)

\* C3 as stated: an upload whose main file has no allowed extension is rejected
\* with the invalid-file error, and rows, files and folders stay as they were:
\* so answers upload_pdf in every state, whatever the other fields, and so was
\* the last upload answered.
C3_BadExtensionIsInvalidFile ==
    /\ \A title \in TitleInputs, author \in AuthorInputs, category \in CategoryInputs,
          f \in FileInputs \ {NoUpload}, thumb \in ThumbInputs :
            ~ HasAllowedExtension(f) =>
                LET r == UploadResult(db, dirs, files, clock + 1, title, author, category, "",
                                      f, thumb)
                IN  r.status = 400 /\ Untouched(r)
    /\ BadUploadJustServed => (last.status = 400 /\ InvalidFile(last.msg))

\* C3 amended: such an upload is rejected and changes nothing; the error is the
\* invalid-file error when title, author and category are all given, and the
\* missing-field error when the file has a name and one of them is missing.
C3_BadExtensionRejected ==
    /\ \A title \in TitleInputs, author \in AuthorInputs, category \in CategoryInputs,
          f \in FileInputs \ {NoUpload}, thumb \in ThumbInputs :
            ~ HasAllowedExtension(f) =>
                LET r == UploadResult(db, dirs, files, clock + 1, title, author, category, "",
                                      f, thumb)
                IN  /\ r.status = 400
                    /\ Untouched(r)
                    /\ IF f # Empty /\ (title = Empty \/ author = "" \/ category = "")
                       THEN MissingField(r.msg)
                       ELSE InvalidFile(r.msg)
    /\ BadUploadJustServed =>
            /\ last.status = 400
            /\ IF last.arg # Empty /\ (last.body.title = Empty \/ last.body.author = "")
               THEN MissingField(last.msg)
               ELSE InvalidFile(last.msg)

\* an upload was just rejected for its extension, in a catalog that holds a document
C3_Witness ==
    /\ last.op = "upload"
    /\ last.status = 400
    /\ last.msg = "Invalid file format"
    /\ DOMAIN db # {}
    /\ files # {}

\* C4: BatchDelete(ids), nothing failing, skips the ids that name no document,
\* removes every document named and no other, and reports as deleted_count the
\* number of rows it removed.
C4_BatchDeleteCount ==
    [][(last'.op = "batch_delete" /\ last'.arg # NoIds /\ last'.fault = "none") =>
        /\ last'.status = 200
        /\ db' = DeleteRows(db, Range(last'.arg))
        /\ last'.count = Cardinality(DOMAIN db \ DOMAIN db')
    ]_vars

SameTitle(t) == {i \in DOMAIN db : db[i].title = t}

\* C5 as stated: in every catalog state, after Upload with title t returned d,
\* GetByTitle(t) returns d.
C5_GetByTitleReturnsUpload ==
    (last.op = "upload" /\ last.status = 201) =>
        /\ last.body.download_count = 0
        /\ db[last.id] = last.body
        /\ GetByTitleResult(db, last.body.title).status = 200
        /\ GetByTitleResult(db, last.body.title).body = last.body

\* C5 amended: after Upload with title t returned d, GetByTitle(t) returns a
\* document titled t, and it is d when no other document in the catalog has
\* title t.
C5_GetByTitleReturnsATitled ==
    (last.op = "upload" /\ last.status = 201) =>
        /\ last.body.download_count = 0
        /\ db[last.id] = last.body
        /\ GetByTitleResult(db, last.body.title).status = 200
        /\ GetByTitleResult(db, last.body.title).body.title = last.body.title
        /\ GetByTitleResult(db, last.body.title).body \in Range(db)
        /\ (SameTitle(last.body.title) = {last.id} =>
                GetByTitleResult(db, last.body.title).body = last.body)

\* an upload just returned the second document of the catalog, under a title
\* that the first one does not have
C5_Witness ==
    /\ last.op = "upload"
    /\ last.status = 201
    /\ last.id = 2
    /\ DOMAIN db = {1, 2}
    /\ SameTitle(last.body.title) = {2}

\* C6: Download(id) fails with NotFound when no document has the id and when the
\* document's file is not in the folder derived from its current title.
C6_DownloadNotFound ==
    (/\ last.op = "download"
     /\ \/ last.id \notin DOMAIN db
        \/ StoredPath(QueryGet(db, last.id)) \notin files)
    => last.status = 404

OtherFieldsKept(old, new) ==
    /\ new.id = old.id
    /\ new.file_name = old.file_name
    /\ new.thumbnail = old.thumbnail
    /\ new.upload_date = old.upload_date
    /\ new.download_count = old.download_count

\* C7: Update on an existing document fails with NoData whenever the payload has
\* none of title, author, category, description, leaving the document as it was;
\* and a successful Update changes no other field.
C7_UpdateNeedsAField ==
    [][(last'.op = "update" /\ last'.id \in DOMAIN db) =>
        /\ (last'.arg \cap UpdatableFields = {}) =>
                (last'.status = 400 /\ last'.msg = "No data provided" /\ db' = db)
        /\ last'.status = 200 =>
                (/\ DOMAIN db' = DOMAIN db
                 /\ OtherFieldsKept(db[last'.id], db'[last'.id])
                 /\ \A j \in DOMAIN db \ {last'.id} : db'[j] = db[j])
    ]_vars

\* C8: Delete removes the stored file, then the thumbnail, then the folder if it
\* is empty, and only then the row; when one of the removals fails the caller
\* gets an error and the row is there with every field as it was.
C8_DeleteFilesThenRow ==
    [][last'.op = "delete" =>
        /\ last'.status = 500 =>
            /\ db' = db
            /\ last'.id \in DOMAIN db'
            /\ last'.fault = "file" => (files' = files /\ dirs' = dirs)
            /\ last'.fault = "thumb" =>
                (/\ StoredPath(db[last'.id]) \notin files'
                 /\ db[last'.id].thumbnail \in files'
                 /\ dirs' = dirs)
            /\ last'.fault \in {"rmdir", "commit"} =>
                (/\ StoredPath(db[last'.id]) \notin files'
                 /\ db[last'.id].thumbnail \notin files')
            /\ last'.fault = "rmdir" => dirs' = dirs
        /\ last'.status = 200 =>
            /\ db' = DeleteRows(db, {last'.id})
            /\ StoredPath(db[last'.id]) \notin files'
            /\ db[last'.id].thumbnail \notin files'
        /\ last'.status \in {200, 500} =>
            /\ files' \subseteq files
            /\ dirs' \subseteq dirs
            /\ \A d \in dirs \ dirs' : d = FolderName(db[last'.id].title) /\ ListDirEmpty(files', d)
            /\ (last'.status = 200 \/ last'.fault = "commit") =>
                    \A d \in dirs' : d = FolderName(db[last'.id].title) => ~ ListDirEmpty(files', d)
    ]_vars

\* a Delete just failed on its thumbnail: the stored file is gone, the row is there
C8_Witness ==
    /\ last.op = "delete"
    /\ last.status = 500
    /\ last.fault = "thumb"
    /\ last.id \in DOMAIN db
    /\ StoredPath(db[last.id]) \notin files
    /\ db[last.id].thumbnail \in files

\* C9: BatchDelete removes rows as one unit: when the call fails while it
\* processes any id, no row is removed, though files of the ids processed before
\* are gone; when it succeeds, all the rows found are removed.
C9_BatchDeleteAtomic ==
    [][(last'.op = "batch_delete" /\ last'.arg # NoIds) =>
        /\ last'.status \in {200, 500}
        /\ last'.status = 500 => (db' = db /\ files' \subseteq files)
        /\ last'.status = 200 => db' = DeleteRows(db, Range(last'.arg))
    ]_vars

\* a batch of two documents just failed on the file of the second: both rows are
\* there, the file of the first is gone
C9_Witness ==
    /\ last.op = "batch_delete"
    /\ last.status = 500
    /\ last.fault = "file"
    /\ Len(last.arg) = 2
    /\ DOMAIN db = {1, 2}
    /\ Range(last.arg) = {1, 2}
    /\ StoredPath(db[last.arg[1]]) \notin files
    /\ StoredPath(db[last.arg[2]]) \in files

\* C10: two uploads whose titles derive the same folder, their steps interleaved,
\* both succeed, each with its row inserted and its file on disk.
C10_ConcurrentUploadsSucceed ==
    \A w \in Workers :
        (req[w].op = "upload" /\ req[w].pc = "done") =>
            /\ req[w].status = 201
            /\ req[w].pdf.id \in DOMAIN db
            /\ StoredPath(req[w].pdf) \in files

\* C11: after any sequence of Upload, Delete and BatchDelete requests in which
\* no file-system or database call has failed (and no Update was made), every
\* document still in the catalog has its stored file on disk under the folder
\* derived from its title; a delete never removes the file of a document that
\* still exists, also when two documents share a title and a file name.
C11_RowsHaveFiles ==
    faults = 0 => \A id \in DOMAIN db : StoredPath(db[id]) \in files

====
